---- MODULE Spec2Model ----
(***************************************************************************)
(* Model of the serverless image-to-video handler:                         *)
(*   src/handler.py         validate_input, handler                        *)
(*   src/utils/workflow.py  ComfyUIWorkflow, WORKFLOW_TEMPLATE,            *)
(*                          create_wan_workflow, process_image_to_video    *)
(* The inference engine (ComfyUI) is the environment: every HTTP call gets *)
(* a nondeterministically chosen answer.                                   *)
(***************************************************************************)
EXTENDS Integers, Sequences, FiniteSets, TLC

(***************************************************************************)
(* Python values.  Every value is a record of the same shape so that any   *)
(* two values can be compared:                                             *)
(*   t = "str"   a str; its text is s, or, for strings whose characters    *)
(*               the program inspects (the image field), the characters c  *)
(*   t = "int"   an int n (s holds the digits of an int beyond 32 bits)    *)
(*   t = "float" a float; n is the value in tenths (0.2 is n = 2), or s    *)
(*               holds the literal when it is no multiple of a tenth       *)
(*   t = "ref"   a reference to the mutable object (dict or list) at heap  *)
(*               address [o |-> s, p |-> c]                                *)
(***************************************************************************)
S(x) == [t |-> "str", n |-> 0, s |-> x, c |-> <<>>]
Txt(chars) == [t |-> "str", n |-> 0, s |-> "", c |-> chars]
N(k) == [t |-> "int", n |-> k, s |-> "", c |-> <<>>]
BigN(digits) == [t |-> "int", n |-> 0, s |-> digits, c |-> <<>>]
F(tenths) == [t |-> "float", n |-> tenths, s |-> "", c |-> <<>>]
FLit(lit) == [t |-> "float", n |-> 0, s |-> lit, c |-> <<>>]
Ref(o, p) == [t |-> "ref", n |-> 0, s |-> o, c |-> p]

IsStr(v) == v.t = "str"
IsNum(v) == v.t \in {"int", "float"}
\* the number a numeric value stands for, in tenths
Tenths(v) == IF v.t = "int" THEN 10 * v.n ELSE v.n

\* dict.get(k, default)
Get(d, k, default) == IF k \in DOMAIN d THEN d[k] ELSE default
EmptyDict == [k \in {} |-> S("")]

\* exceptions: type, message (what str(e) shows) and the detail formatted into it
NoExc == [type |-> "", msg |-> "", detail |-> ""]
Exc(type, msg) == [type |-> type, msg |-> msg, detail |-> ""]
ExcD(type, msg, detail) == [type |-> type, msg |-> msg, detail |-> detail]

(***************************************************************************)
(* Strings as character sequences, and base64.                             *)
(***************************************************************************)
startswith(chars, prefix) ==
    /\ Len(chars) >= Len(prefix)
    /\ SubSeq(chars, 1, Len(prefix)) = prefix

\* chars.split(sep, 1): one piece when sep does not occur, else two
split1(chars, sep) ==
    IF \E i \in 1..Len(chars) : chars[i] = sep
    THEN LET i == CHOOSE k \in 1..Len(chars) :
                      /\ chars[k] = sep
                      /\ \A m \in 1..(k - 1) : chars[m] # sep
         IN  <<SubSeq(chars, 1, i - 1), SubSeq(chars, i + 1, Len(chars))>>
    ELSE <<chars>>

B64Chars ==
    << "A","B","C","D","E","F","G","H","I","J","K","L","M",
       "N","O","P","Q","R","S","T","U","V","W","X","Y","Z",
       "a","b","c","d","e","f","g","h","i","j","k","l","m",
       "n","o","p","q","r","s","t","u","v","w","x","y","z",
       "0","1","2","3","4","5","6","7","8","9","+","/" >>
IsB64Char(ch) == \E i \in 1..64 : B64Chars[i] = ch
B64Value(ch) == (CHOOSE i \in 1..64 : B64Chars[i] = ch) - 1

\* binascii.a2b_base64 as base64.b64decode(s) calls it (validate=False):
\* characters outside the alphabet are skipped, a pad that completes a quad
\* ends the input, and leftover characters are an error.
RECURSIVE a2b_base64(_, _, _, _, _)
a2b_base64(chars, quad_pos, leftchar, pads, out) ==
    IF chars = <<>>
    THEN IF quad_pos = 0
         THEN [ok |-> TRUE, bytes |-> out]
         ELSE [ok |-> FALSE, bytes |-> <<>>]
    ELSE LET ch == Head(chars)
             rest == Tail(chars)
         IN  IF ch = "="
             THEN IF quad_pos >= 2
                  THEN IF quad_pos + pads + 1 >= 4
                       THEN [ok |-> TRUE, bytes |-> out]
                       ELSE a2b_base64(rest, quad_pos, leftchar, pads + 1, out)
                  ELSE a2b_base64(rest, quad_pos, leftchar, pads, out)
             ELSE IF ~IsB64Char(ch)
             THEN a2b_base64(rest, quad_pos, leftchar, pads, out)
             ELSE LET v == B64Value(ch)
                  IN  CASE quad_pos = 0 ->
                             a2b_base64(rest, 1, v, 0, out)
                        [] quad_pos = 1 ->
                             a2b_base64(rest, 2, v % 16, 0,
                                        Append(out, (leftchar * 4) + (v \div 16)))
                        [] quad_pos = 2 ->
                             a2b_base64(rest, 3, v % 4, 0,
                                        Append(out, (leftchar * 16) + (v \div 4)))
                        [] quad_pos = 3 ->
                             a2b_base64(rest, 0, 0, 0,
                                        Append(out, (leftchar * 64) + v))

\* base64.b64decode(chars): [ok, bytes]; not ok stands for binascii.Error
b64decode(chars) == a2b_base64(chars, 0, 0, 0, <<>>)

\* the base64 letter of a 6-bit value
B64Letter(v) == B64Chars[v + 1]

\* base64.b64encode(bytes).decode('utf-8')
RECURSIVE b64encode(_)
b64encode(bytes) ==
    IF Len(bytes) = 0 THEN <<>>
    ELSE IF Len(bytes) = 1
    THEN << B64Letter(bytes[1] \div 4),
            B64Letter((bytes[1] % 4) * 16), "=", "=" >>
    ELSE IF Len(bytes) = 2
    THEN << B64Letter(bytes[1] \div 4),
            B64Letter(((bytes[1] % 4) * 16) + (bytes[2] \div 16)),
            B64Letter((bytes[2] % 16) * 4), "=" >>
    ELSE << B64Letter(bytes[1] \div 4),
            B64Letter(((bytes[1] % 4) * 16) + (bytes[2] \div 16)),
            B64Letter(((bytes[2] % 16) * 4) + (bytes[3] \div 64)),
            B64Letter(bytes[3] % 64) >>
         \o b64encode(SubSeq(bytes, 4, Len(bytes)))

(***************************************************************************)
(* validate_input (src/handler.py).                                        *)
(***************************************************************************)
DataUrlPrefix == <<"d","a","t","a",":","i","m","a","g","e","/">>
valid_camera_types == {"Zoom In", "Static", "Zoom Out", "Pan Left", "Pan Right"}
MinDim == 256
MaxDim == 1920
MinLength == 16
MaxLength == 200
\* 0.1 and 1.0, in tenths
MinSpeedTenths == 1
MaxSpeedTenths == 10

\* the defaults of the optional fields
InputDefaults ==
    [prompt |-> S("cinematic static objects, smooth camera movement"),
     camera_type |-> S("Zoom In"),
     width |-> N(832),
     height |-> N(448),
     length |-> N(93),
     speed |-> F(2),
     fps |-> N(30)]

\* lo <= v <= hi (bounds in tenths): "T", "F", or "E" when Python cannot
\* compare v with a number (TypeError)
Between(lo, v, hi) ==
    IF ~IsNum(v) THEN "E"
    ELSE IF lo <= Tenths(v) /\ Tenths(v) <= hi THEN "T" ELSE "F"

CameraTypeOk(v) == v \in {S(x) : x \in valid_camera_types}

\* 256 <= width <= 1920 and 256 <= height <= 1920; `and` does not evaluate
\* the height when the width is out of range
DimensionsOk(width, height) ==
    LET w == Between(10 * MinDim, width, 10 * MaxDim)
    IN  IF w = "T" THEN Between(10 * MinDim, height, 10 * MaxDim) ELSE w

LengthOkStrict(v) == Between(10 * (MinLength + 1), v, 10 * (MaxLength - 1))
LengthOk(v) == Between(10 * MinLength, v, 10 * MaxLength)

SpeedOk(v) == Between(MinSpeedTenths, v, MaxSpeedTenths)

\* lines 111-126: the image field; [exc, image_data]
CheckImage(job_input) ==
    IF "image" \notin DOMAIN job_input
    THEN [exc |-> Exc("ValueError", "Missing required field: image"),
          image_data |-> Txt(<<>>)]
    ELSE LET image == job_input["image"]
         IN  IF ~IsStr(image)
             THEN [exc |-> Exc("ValueError", "Image must be base64 encoded string"),
                   image_data |-> Txt(<<>>)]
             ELSE LET prefixed == startswith(image.c, DataUrlPrefix)
                      pieces == split1(image.c, ",")
                      \* split(',', 1)[1] without a comma: IndexError
                      index_error == prefixed /\ Len(pieces) < 2
                      data == IF prefixed /\ ~index_error
                              THEN pieces[2] ELSE image.c
                  IN  IF index_error \/ ~b64decode(data).ok
                      THEN [exc |-> Exc("ValueError", "Invalid base64 image data"),
                            image_data |-> Txt(<<>>)]
                      ELSE [exc |-> NoExc, image_data |-> Txt(data)]

TypeErrorCompare ==
    Exc("TypeError", "'<=' not supported between instances of 'int' and 'str'")

\* validate_input(job_input): [ok, value, exc]
validate_input(job_input) ==
    LET img == CheckImage(job_input)
        validated ==
            [image |-> img.image_data,
             prompt |-> Get(job_input, "prompt", InputDefaults.prompt),
             camera_type |-> Get(job_input, "camera_type", InputDefaults.camera_type),
             width |-> Get(job_input, "width", InputDefaults.width),
             height |-> Get(job_input, "height", InputDefaults.height),
             length |-> Get(job_input, "length", InputDefaults.length),
             speed |-> Get(job_input, "speed", InputDefaults.speed),
             fps |-> Get(job_input, "fps", InputDefaults.fps)]
        dims == DimensionsOk(validated.width, validated.height)
        len == LengthOk(validated.length)
        spd == SpeedOk(validated.speed)
        fail(e) == [ok |-> FALSE, value |-> EmptyDict, exc |-> e]
    IN  IF img.exc # NoExc THEN fail(img.exc)
        ELSE IF ~CameraTypeOk(validated.camera_type)
        THEN fail(Exc("ValueError", "Invalid camera_type. Must be one of: [...]"))
        ELSE IF dims = "E" THEN fail(TypeErrorCompare)
        ELSE IF dims = "F"
        THEN fail(Exc("ValueError", "Width and height must be between 256 and 1920"))
        ELSE IF len = "E" THEN fail(TypeErrorCompare)
        ELSE IF len = "F"
        THEN fail(Exc("ValueError", "Length must be between 16 and 200 frames"))
        ELSE IF spd = "E" THEN fail(TypeErrorCompare)
        ELSE IF spd = "F"
        THEN fail(Exc("ValueError", "Speed must be between 0.1 and 1.0"))
        ELSE [ok |-> TRUE, value |-> validated, exc |-> NoExc]

(***************************************************************************)
(* A Python call of def f(p1, ..., pn, **kwargs) with keyword arguments kw *)
(* alone (the call spreads a dict): each parameter                         *)
(* takes the keyword of its name or its default; a parameter with neither  *)
(* is a TypeError; the keywords that name no parameter go to kwargs.       *)
(***************************************************************************)
CallKw(fname, params, defaults, kw) ==
    LET missing == params \ (DOMAIN kw \cup DOMAIN defaults)
    IN  IF missing # {}
        THEN [ok |-> FALSE,
              exc |-> ExcD("TypeError",
                           "missing required positional argument", fname),
              named |-> EmptyDict, kwargs |-> EmptyDict]
        ELSE [ok |-> TRUE, exc |-> NoExc,
              named |-> [p \in params |->
                            IF p \in DOMAIN kw THEN kw[p] ELSE defaults[p]],
              kwargs |-> [k \in DOMAIN kw \ params |-> kw[k]]]

\* the signature of process_image_to_video
pitv_params == {"image_data", "prompt", "camera_type", "width", "height", "length"}
pitv_defaults ==
    [camera_type |-> S("Zoom In"), width |-> N(832), height |-> N(448),
     length |-> N(93)]

(***************************************************************************)
(* The heap of mutable Python objects (dicts and lists).  An object lives  *)
(* at an address [o, p]: o names the allocation that created it ("T" for   *)
(* the module-level template, the caller for a copy), p is its path from   *)
(* the root of that allocation.  A cell is [kind, f]: f maps keys (of a    *)
(* list: "0", "1") to values; a nested dict or list is held by reference.  *)
(***************************************************************************)
Addr(o, p) == [o |-> o, p |-> p]
AddrOf(ref) == Addr(ref.s, ref.c)
Cell(kind, f) == [kind |-> kind, f |-> f]

\* a two-element list ["<node>", <slot>] as a literal
Edge(node, slot) == [t |-> "edge", n |-> slot, s |-> node, c |-> <<>>]

\* WORKFLOW_TEMPLATE as written in the source
TemplateLiteral ==
       ("71" :> [class_type |-> S("KSamplerAdvanced"),
        inputs |->
                 [add_noise |-> S("enable"),
                  noise_seed |-> BigN("316038771312063"),
                  steps |-> N(4),
                  cfg |-> N(1),
                  sampler_name |-> S("euler"),
                  scheduler |-> S("simple"),
                  start_at_step |-> N(0),
                  end_at_step |-> N(2),
                  return_with_leftover_noise |-> S("enable"),
                  model |-> Edge("76", 0),
                  positive |-> Edge("80", 0),
                  negative |-> Edge("80", 1),
                  latent_image |-> Edge("80", 2)]])
    @@ ("72" :> [class_type |-> S("UNETLoader"),
        inputs |->
                 [unet_name |-> S("wan2.2_fun_camera_low_noise_14B_fp8_scaled.safetensors"),
                  weight_dtype |-> S("default")]])
    @@ ("73" :> [class_type |-> S("SaveVideo"),
        inputs |->
                 [filename_prefix |-> S("video/ComfyUI"),
                  format |-> S("auto"),
                  codec |-> S("auto"),
                  video |-> Edge("83", 0)]])
    @@ ("74" :> [class_type |-> S("CLIPTextEncode"),
        inputs |->
                 [text |-> S("static image, no movement, oversaturated colors, overexposed, blurry details, poor quality, jpeg artifacts, ugly, deformed, extra fingers, poorly drawn hands, poorly drawn face, malformed, disfigured, mutated limbs, fused fingers, frozen frame, cluttered background, three legs, crowded background, walking backwards, abrupt cuts, jerky movement, low resolution, pixelated, grainy, washed out colors, flat lighting, amateur quality, shaky camera"),
                  clip |-> Edge("85", 0)]])
    @@ ("75" :> [class_type |-> S("UNETLoader"),
        inputs |->
                 [unet_name |-> S("wan2.2_fun_camera_high_noise_14B_fp8_scaled.safetensors"),
                  weight_dtype |-> S("default")]])
    @@ ("76" :> [class_type |-> S("ModelSamplingSD3"),
        inputs |->
                 [shift |-> FLit("8.000000000000002"),
                  model |-> Edge("88", 0)]])
    @@ ("77" :> [class_type |-> S("ModelSamplingSD3"),
        inputs |->
                 [shift |-> N(8),
                  model |-> Edge("90", 0)]])
    @@ ("78" :> [class_type |-> S("KSamplerAdvanced"),
        inputs |->
                 [add_noise |-> S("disable"),
                  noise_seed |-> N(0),
                  steps |-> N(4),
                  cfg |-> N(1),
                  sampler_name |-> S("euler"),
                  scheduler |-> S("simple"),
                  start_at_step |-> N(2),
                  end_at_step |-> N(4),
                  return_with_leftover_noise |-> S("disable"),
                  model |-> Edge("77", 0),
                  positive |-> Edge("80", 0),
                  negative |-> Edge("80", 1),
                  latent_image |-> Edge("71", 0)]])
    @@ ("79" :> [class_type |-> S("LoadImage"),
        inputs |->
                 [image |-> S("amueblar_after.png")]])
    @@ ("80" :> [class_type |-> S("WanCameraImageToVideo"),
        inputs |->
                 [width |-> Edge("87", 1),
                  height |-> Edge("87", 2),
                  length |-> Edge("87", 3),
                  batch_size |-> N(1),
                  positive |-> Edge("81", 0),
                  negative |-> Edge("74", 0),
                  vae |-> Edge("86", 0),
                  start_image |-> Edge("79", 0),
                  camera_conditions |-> Edge("87", 0)]])
    @@ ("81" :> [class_type |-> S("CLIPTextEncode"),
        inputs |->
                 [text |-> S("cinematic static objects, smooth camera movement, atmospheric lighting"),
                  clip |-> Edge("85", 0)]])
    @@ ("82" :> [class_type |-> S("VAEDecode"),
        inputs |->
                 [samples |-> Edge("78", 0),
                  vae |-> Edge("86", 0)]])
    @@ ("83" :> [class_type |-> S("CreateVideo"),
        inputs |->
                 [fps |-> N(30),
                  images |-> Edge("82", 0)]])
    @@ ("85" :> [class_type |-> S("CLIPLoader"),
        inputs |->
                 [clip_name |-> S("umt5_xxl_fp8_e4m3fn_scaled.safetensors"),
                  type |-> S("wan"),
                  device |-> S("default")]])
    @@ ("86" :> [class_type |-> S("VAELoader"),
        inputs |->
                 [vae_name |-> S("wan_2.1_vae.safetensors")]])
    @@ ("87" :> [class_type |-> S("WanCameraEmbedding"),
        inputs |->
                 [camera_pose |-> S("Zoom In"),
                  width |-> N(832),
                  height |-> N(448),
                  length |-> N(93),
                  speed |-> F(2),
                  fx |-> F(5),
                  fy |-> F(5),
                  cx |-> F(5),
                  cy |-> F(5)]])
    @@ ("88" :> [class_type |-> S("LoraLoaderModelOnly"),
        inputs |->
                 [lora_name |-> S("wan2.2_i2v_lightx2v_4steps_lora_v1_high_noise.safetensors"),
                  strength_model |-> N(1),
                  model |-> Edge("75", 0)]])
    @@ ("90" :> [class_type |-> S("LoraLoaderModelOnly"),
        inputs |->
                 [lora_name |-> S("wan2.2_i2v_lightx2v_4steps_lora_v1_low_noise.safetensors"),
                  strength_model |-> N(1),
                  model |-> Edge("72", 0)]])

NodeIds == DOMAIN TemplateLiteral
EdgeKeys(n) == {k \in DOMAIN TemplateLiteral[n].inputs :
                    TemplateLiteral[n].inputs[k].t = "edge"}
TemplatePaths ==
    {<<>>}
    \cup {<<n>> : n \in NodeIds}
    \cup {<<n, "inputs">> : n \in NodeIds}
    \cup UNION {{<<n, "inputs", k>> : k \in EdgeKeys(n)} : n \in NodeIds}

\* the object the template literal places at path p
TemplateCell(o, p) ==
    IF Len(p) = 0
    THEN Cell("dict", [n \in NodeIds |-> Ref(o, <<n>>)])
    ELSE IF Len(p) = 1
    THEN Cell("dict", [class_type |-> TemplateLiteral[p[1]].class_type,
                       inputs |-> Ref(o, <<p[1], "inputs">>)])
    ELSE IF Len(p) = 2
    THEN Cell("dict",
              [k \in DOMAIN TemplateLiteral[p[1]].inputs |->
                  IF k \in EdgeKeys(p[1])
                  THEN Ref(o, <<p[1], "inputs", k>>)
                  ELSE TemplateLiteral[p[1]].inputs[k]])
    ELSE LET e == TemplateLiteral[p[1]].inputs[p[3]]
         IN  Cell("list", ("0" :> S(e.s)) @@ ("1" :> N(e.n)))

\* the heap once the module is loaded
InitHeap == [a \in {Addr("T", p) : p \in TemplatePaths} |-> TemplateCell("T", a.p)]

\* the module-level name WORKFLOW_TEMPLATE: never rebound
WORKFLOW_TEMPLATE == Ref("T", <<>>)

GetItem(h, ref, key) == h[AddrOf(ref)].f[key]
SetItem(h, ref, key, val) ==
    [h EXCEPT ![AddrOf(ref)].f = (key :> val) @@ @]

\* the value a reference denotes, nested objects spelled out
RECURSIVE Deref(_, _)
Deref(h, v) ==
    IF v.t # "ref" THEN v
    ELSE LET cell == h[AddrOf(v)]
         IN  IF cell.kind = "list"
             THEN Edge(cell.f["0"].s, cell.f["1"].n)
             ELSE [k \in DOMAIN cell.f |-> Deref(h, cell.f[k])]

\* the addresses of the objects reachable from the object at a
RECURSIVE Reach(_, _)
Reach(h, a) ==
    {a} \cup UNION {Reach(h, AddrOf(h[a].f[k])) :
                        k \in {x \in DOMAIN h[a].f : h[a].f[x].t = "ref"}}

\* copy.copy(obj): a new top-level object holding the same references
shallowcopy(h, ref, o) ==
    (Addr(o, ref.c) :> h[AddrOf(ref)]) @@ h

\* copy.deepcopy(obj): a new object for every object reachable from obj
deepcopy(h, ref, o) ==
    LET R == Reach(h, AddrOf(ref))
        copy(x) == Cell(h[x].kind,
                        [k \in DOMAIN h[x].f |->
                            IF h[x].f[k].t = "ref"
                            THEN Ref(o, h[x].f[k].c) ELSE h[x].f[k]])
    IN  [b \in {Addr(o, x.p) : x \in R} |->
            copy(CHOOSE x \in R : x.p = b.p)] @@ h

\* create_wan_workflow called by o with arguments a (a.kwargs: the keywords
\* its **kwargs takes, which it never reads): the heap afterwards; the graph
\* returned is the object at Workflow(o)
Workflow(o) == Ref(o, <<>>)

\* the same with width and height written to each other's field
create_wan_workflow_swapped(h, o, a) ==
    LET workflow == Workflow(o)
        h0 == deepcopy(h, WORKFLOW_TEMPLATE, o)
        inputs(hh, n) == GetItem(hh, GetItem(hh, workflow, n), "inputs")
        h1 == SetItem(h0, inputs(h0, "79"), "image", a.image_filename)
        h2 == SetItem(h1, inputs(h1, "81"), "text", a.prompt)
        h3 == SetItem(h2, inputs(h2, "87"), "camera_pose", a.camera_type)
        h4 == SetItem(h3, inputs(h3, "87"), "width", a.height)
        h5 == SetItem(h4, inputs(h4, "87"), "height", a.width)
    IN  SetItem(h5, inputs(h5, "87"), "length", a.length)

create_wan_workflow(h, o, a) ==
    LET workflow == Workflow(o)
        h0 == deepcopy(h, WORKFLOW_TEMPLATE, o)
        inputs(hh, n) == GetItem(hh, GetItem(hh, workflow, n), "inputs")
        h1 == SetItem(h0, inputs(h0, "79"), "image", a.image_filename)
        h2 == SetItem(h1, inputs(h1, "81"), "text", a.prompt)
        h3 == SetItem(h2, inputs(h2, "87"), "camera_pose", a.camera_type)
        h4 == SetItem(h3, inputs(h3, "87"), "width", a.width)
        h5 == SetItem(h4, inputs(h4, "87"), "height", a.height)
    IN  SetItem(h5, inputs(h5, "87"), "length", a.length)

(***************************************************************************)
(* Sample data.                                                            *)
(***************************************************************************)
Jobs == {"j1", "j2"}

\* "aGk=" is base64 for the bytes of "hi"
ImgValid == <<"a","G","k","=">>
\* junk outside the alphabet is skipped by the decoder: decodes like ImgValid
ImgLenient == <<"a","G"," ","k","=">>
ImgNotB64 == <<"n","o","t","-","b","a","s","e","6","4">>
ImgUnpadded == <<"a","G","k">>
ImgDataUrl ==
    DataUrlPrefix \o <<"p","n","g",";","b","a","s","e","6","4",",">> \o ImgValid
ImgDataUrlNoComma == DataUrlPrefix \o <<"p","n","g">>

\* job["input"] dicts
OnlyImage == [image |-> Txt(ImgValid)]
MainInputs ==
    { EmptyDict,
      [image |-> N(123)],
      [image |-> Txt(ImgNotB64)],
      [image |-> Txt(ImgDataUrlNoComma)],
      OnlyImage,
      [image |-> Txt(ImgDataUrl), camera_type |-> S("Static")],
      [image |-> Txt(ImgValid), camera_type |-> S("Orbit")],
      [image |-> Txt(ImgValid), width |-> N(255)],
      [image |-> Txt(ImgValid), height |-> N(1921)],
      [image |-> Txt(ImgValid), width |-> S("wide")],
      [image |-> Txt(ImgValid), length |-> N(201)],
      [image |-> Txt(ImgValid), speed |-> F(11)],
      [image |-> Txt(ImgValid), prompt |-> S("a slow pan"),
       camera_type |-> S("Pan Left"), width |-> N(1024), height |-> N(576),
       length |-> N(49), speed |-> F(5), fps |-> N(24)] }

\* the job objects the runtime hands to handler: without "input", with an
\* input that is no dict, with an input dict
HandlerJobs ==
    { [has_input |-> FALSE, is_mapping |-> FALSE, input |-> EmptyDict],
      [has_input |-> TRUE, is_mapping |-> FALSE, input |-> EmptyDict] }
    \cup { [has_input |-> TRUE, is_mapping |-> TRUE, input |-> i] : i \in MainInputs }

\* the keyword form of direct calls of process_image_to_video
DirectCalls ==
    { [image_data |-> Txt(ImgValid), prompt |-> S("a slow pan")],
      [image_data |-> Txt(ImgValid), prompt |-> S("a slow pan"),
       camera_type |-> S("Pan Left"), width |-> N(1024), height |-> N(576),
       length |-> N(49), speed |-> F(5), fps |-> N(24)],
      [image_data |-> Txt(ImgUnpadded), prompt |-> S("a slow pan")] }

NoJob == [has_input |-> FALSE, is_mapping |-> FALSE, input |-> EmptyDict]
Calls ==
    { [entry |-> "handler", job |-> jb, kw |-> EmptyDict] : jb \in HandlerJobs }
    \cup { [entry |-> "direct", job |-> NoJob, kw |-> k] : k \in DirectCalls }
NoCall == [entry |-> "", job |-> NoJob, kw |-> EmptyDict]

\* f"input_{uuid.uuid4().hex[:8]}.png": any of the 2^32 names
TempNames == {"input_0a1b2c3d.png", "input_4e5f6a7b.png"}
\* the execution ids the engine hands out
PromptIds == {"exec-1", "exec-2"}
\* the bytes of the artifacts the engine serves
VideoSamples == {<<0, 1, 2>>, <<255, 128>>}

\* the timeout argument of wait_for_completion, in seconds (600 by default)
TimeoutSecs == 6
\* time.sleep(2) between polls, time.sleep(5) after a transport error
PollSleep == 2
RetrySleep == 5
\* the extra whole seconds one round of the polling loop may take
MaxLatency == 1
\* the clock stops here (no run of the program gets that far); the request
\* counters count 0, 1, ..., CountCap and stay there
ClockCap == TimeoutSecs + RetrySleep + MaxLatency
CountCap == 2
Tick(n, d) == IF n + d > ClockCap THEN ClockCap ELSE n + d
Count(n) == IF n >= CountCap THEN CountCap ELSE n + 1

(***************************************************************************)
(* What the engine may answer.                                             *)
(***************************************************************************)
NoVideo == [filename |-> "", subfolder |-> "", type |-> ""]
Video1 == [filename |-> "ComfyUI_00001_.mp4", subfolder |-> "video", type |-> "output"]
\* result["outputs"]: has73 is '73' in outputs, has_videos is
\* 'videos' in outputs['73']
OutputsSamples ==
    { [has73 |-> FALSE, has_videos |-> FALSE, videos |-> <<>>],
      [has73 |-> TRUE, has_videos |-> FALSE, videos |-> <<>>],
      [has73 |-> TRUE, has_videos |-> TRUE, videos |-> <<>>],
      [has73 |-> TRUE, has_videos |-> TRUE, videos |-> <<Video1>>] }
NoOutputs == [has73 |-> FALSE, has_videos |-> FALSE, videos |-> <<>>]
\* result["status"]: absent (status_str "none"), or the engine's report
StatusSamples ==
    { [status_str |-> "none", messages |-> ""],
      [status_str |-> "success", messages |-> "execution_success"],
      [status_str |-> "error", messages |-> "execution_error: out of memory"] }
NoEntry == [has_outputs |-> FALSE, outputs |-> NoOutputs,
            status |-> [status_str |-> "none", messages |-> ""]]
Entries ==
    { [has_outputs |-> FALSE, outputs |-> NoOutputs, status |-> st] :
          st \in StatusSamples }
    \cup { [has_outputs |-> TRUE, outputs |-> o, status |-> st] :
               o \in OutputsSamples, st \in StatusSamples }
\* GET /history/{id}: a transport or status error, a body without the id,
\* the id mapped to null, the id mapped to an entry
HistoryAnswers ==
    { [kind |-> k, entry |-> NoEntry] : k \in {"RequestException", "absent", "null"} }
    \cup { [kind |-> "entry", entry |-> e] : e \in Entries }
NoAnswer == [kind |-> "", entry |-> NoEntry]

(***************************************************************************)
(* State.                                                                  *)
(*   heap    the mutable objects: the template and the graphs copied of it *)
(*   pc      where each invocation stands                                  *)
(*   call    what was invoked: handler(job), or process_image_to_video     *)
(*           called directly with keywords kw                              *)
(*   locals  the local variables of the invocation                         *)
(*   ret     how the invocation ended                                      *)
(*   net     the HTTP requests the invocation has sent to the engine, and  *)
(*           what the engine answered (refused: some answer was a failure, *)
(*           or the engine never reported a video in time)                 *)
(*   probe   the last call of a function examined on its own               *)
(***************************************************************************)
(***************************************************************************)
(* The process: the volume and the application directory, the threads that *)
(* run start-up code, the module-level engine handle, the subprocesses     *)
(* spawned, and the serverless runtime.                                    *)
(***************************************************************************)
\* MODELS_CONFIG, in the iteration order of the dict
Categories == <<"diffusion_models", "loras", "text_encoders", "vae">>
MODELS_CONFIG ==
    [diffusion_models |->
        <<"wan2.2_fun_camera_high_noise_14B_fp8_scaled.safetensors",
          "wan2.2_fun_camera_low_noise_14B_fp8_scaled.safetensors">>,
     loras |->
        <<"wan2.2_i2v_lightx2v_4steps_lora_v1_high_noise.safetensors",
          "wan2.2_i2v_lightx2v_4steps_lora_v1_low_noise.safetensors">>,
     text_encoders |-> <<"umt5_xxl_fp8_e4m3fn_scaled.safetensors">>,
     vae |-> <<"wan_2.1_vae.safetensors">>]
\* models_base / category / filename
FilePath(category, filename) == [category |-> category, filename |-> filename]
RECURSIVE Flatten(_)
Flatten(seqs) == IF seqs = <<>> THEN <<>> ELSE Head(seqs) \o Flatten(Tail(seqs))
\* the (category, filename) pairs in the order the two loops visit them
Manifest ==
    Flatten([c \in 1..Len(Categories) |->
               [f \in 1..Len(MODELS_CONFIG[Categories[c]]) |->
                   FilePath(Categories[c], MODELS_CONFIG[Categories[c]][f])]])
Range(seq) == {seq[x] : x \in 1..Len(seq)}
ManifestPaths == Range(Manifest)

\* the filesystem: the volume mount, /app/ComfyUI, the category directories
\* under {volume}/models and the files in them
Disks ==
    { [mounted |-> FALSE, comfy_dir |-> b, dirs |-> {}, files |-> {}] :
          b \in BOOLEAN }
    \cup UNION { { [mounted |-> TRUE, comfy_dir |-> b, dirs |-> ds, files |-> fs] :
                     b \in BOOLEAN,
                     fs \in SUBSET {q \in ManifestPaths : q.category \in ds} } :
                 ds \in SUBSET Range(Categories) }
FullDisk ==
    [mounted |-> TRUE, comfy_dir |-> TRUE, dirs |-> Range(Categories),
     files |-> ManifestPaths]
\* a check that finds nothing
never_exists(d, path) == FALSE

\* Path.exists()
exists(d, path) == path \in d.files

Threads == {"t1", "t2"}
max_retries == 60
MaxSpawn == 3
PassCap == 2
AcceptCap == 2

VARIABLES heap, pc, call, locals, ret, net, probe,
          disk, thread, comfy_process, children, runtime
jobvars == <<heap, pc, call, locals, ret, net, probe>>
procvars == <<disk, thread, comfy_process, children, runtime>>
vars == <<heap, pc, call, locals, ret, net, probe,
          disk, thread, comfy_process, children, runtime>>

NoArgs == [image_filename |-> S(""), prompt |-> S(""), camera_type |-> S(""),
           width |-> N(0), height |-> N(0), length |-> N(0),
           kwargs |-> EmptyDict]
NoLocals ==
    [validated_input |-> EmptyDict, kw |-> EmptyDict,
     named |-> EmptyDict, kwargs |-> EmptyDict,
     image_bytes |-> <<>>, temp_filename |-> S(""),
     has_workflow |-> FALSE, cw_args |-> NoArgs,
     prompt_id |-> "", elapsed |-> 0,
     result |-> NoEntry, video_output |-> NoVideo]
NoRet ==
    [kind |-> "none", success |-> FALSE, exc |-> NoExc,
     video |-> <<>>, video_data |-> <<>>, filename |-> "",
     processing_time |-> 0, parameters_used |-> EmptyDict]
NoNet ==
    [uploads |-> 0, prompts |-> 0, histories |-> 0, views |-> 0,
     upload_ok |-> FALSE, uploaded |-> S(""), submitted |-> EmptyDict,
     polled |-> {}, viewed |-> NoVideo, fetched |-> <<>>,
     last_history |-> NoAnswer, refused |-> FALSE]
NoProbe == [called |-> FALSE, input |-> EmptyDict,
            out |-> [ok |-> FALSE, value |-> EmptyDict, exc |-> NoExc]]

\* a thread that runs nothing: the function it entered (entry), the locals
\* of check_and_download_models (present, missing, k) and what its pass did
\* to which path, the steps of initialize begun and passed, the loop index
\* of wait_for_comfyui with the answer of its latest GET, the outcome, and
\* the outcome of the call it made before this one
NoOutcome == [kind |-> "none", exc |-> NoExc]
NoThread ==
    [pc |-> "idle", entry |-> "", passes |-> 0,
     present |-> {}, missing |-> <<>>, k |-> 0,
     requested |-> {}, opened |-> {}, unlinked |-> {},
     begun |-> <<>>, passed |-> <<>>,
     i |-> 0, gets |-> 0, answer |-> "",
     out |-> NoOutcome, prior |-> NoOutcome]
\* runpod.serverless: is the handler registered, the jobs accepted so far,
\* and the exit code of the process (-1 while it runs)
NoRuntime == [registered |-> FALSE, accepted |-> 0, exit_code |-> -1]

\* the functions are there, nothing has been called
InitJobs ==
    /\ heap = InitHeap
    /\ pc = [j \in Jobs |-> "idle"]
    /\ call = [j \in Jobs |-> NoCall]
    /\ locals = [j \in Jobs |-> NoLocals]
    /\ ret = [j \in Jobs |-> NoRet]
    /\ net = [j \in Jobs |-> NoNet]
    /\ probe = NoProbe

\* the process has just been started on a machine whose filesystem is d
InitProcess(d) ==
    /\ disk = d
    /\ thread = [t \in Threads |-> NoThread]
    /\ comfy_process = 0
    /\ children = <<>>
    /\ runtime = NoRuntime

Init == InitJobs /\ InitProcess(FullDisk)

(***************************************************************************)
(* How an invocation ends.                                                 *)
(***************************************************************************)
\* an exception leaving the function
Raised(e) == [NoRet EXCEPT !.kind = "raise", !.exc = e]

\* handler, lines 192-194: the except clause of handler
handler_reraise(e) == Raised(e)
handler_except(e) == [NoRet EXCEPT !.kind = "response", !.exc = e]

\* handler, lines 175-190: the statements after process_image_to_video
handler_success(validated_input, video_data, filename, processing_time) ==
    [NoRet EXCEPT !.kind = "response", !.success = TRUE,
                  !.video = b64encode(video_data), !.filename = filename,
                  !.processing_time = processing_time,
                  !.parameters_used = validated_input]

\* process_image_to_video, line 354, returning to a direct caller
pitv_return(video_data, filename) ==
    [NoRet EXCEPT !.kind = "return", !.video_data = video_data,
                  !.filename = filename]

\* an exception e inside process_image_to_video: handler's try catches it,
\* a direct caller gets it
Thrown(j, e) ==
    IF call[j].entry = "handler" THEN handler_except(e) ELSE Raised(e)

\* the objects allocated by o are dropped when its frame is left
Collect(h, o) == [a \in {x \in DOMAIN h : x.o # o} |-> h[a]]

\* the invocation of j ends with r
Finish(j, r) ==
    /\ ret' = [ret EXCEPT ![j] = r]
    /\ pc' = [pc EXCEPT ![j] = "done"]
    /\ locals' = [locals EXCEPT ![j] = NoLocals]
    /\ heap' = Collect(heap, j)

(***************************************************************************)
(* The runtime, or a caller, starts an invocation; the runtime serves one  *)
(* job at a time.  Once the caller has taken the outcome, the worker is    *)
(* free for the next invocation.                                           *)
(***************************************************************************)
MayStart(j) == \A k \in Jobs \ {j} : pc[k] = "idle"

Recycle(j) ==
    /\ pc[j] = "done"
    /\ pc' = [pc EXCEPT ![j] = "idle"]
    /\ call' = [call EXCEPT ![j] = NoCall]
    /\ ret' = [ret EXCEPT ![j] = NoRet]
    /\ net' = [net EXCEPT ![j] = NoNet]
    /\ UNCHANGED <<heap, locals, probe, procvars>>

Invoke(j) ==
    /\ pc[j] = "idle"
    /\ MayStart(j)
    /\ \E c \in Calls :
        /\ call' = [call EXCEPT ![j] = c]
        /\ pc' = [pc EXCEPT ![j] = IF c.entry = "handler" THEN "h_enter" ELSE "p_call"]
        /\ locals' = [locals EXCEPT ![j].kw = c.kw]
    /\ UNCHANGED <<heap, ret, net, probe, procvars>>

(***************************************************************************)
(* handler, lines 159-174: up to the call of process_image_to_video.       *)
(***************************************************************************)
H_Enter(j) ==
    /\ pc[j] = "h_enter"
    /\ LET jb == call[j].job
           v == validate_input(jb.input)
       IN  IF ~jb.has_input
           THEN \* line 161, before the try: KeyError leaves handler
                Finish(j, Raised(Exc("KeyError", "'input'")))
           ELSE IF ~jb.is_mapping
           THEN \* line 166: job_input.keys()
                Finish(j, handler_except(
                    Exc("AttributeError", "object has no attribute 'keys'")))
           ELSE IF ~v.ok
           THEN Finish(j, handler_except(v.exc))
           ELSE /\ locals' = [locals EXCEPT ![j].validated_input = v.value,
                                            ![j].kw = v.value]
                /\ pc' = [pc EXCEPT ![j] = "p_call"]
                /\ UNCHANGED <<heap, ret>>
    /\ UNCHANGED <<call, net, probe, procvars>>

(***************************************************************************)
(* process_image_to_video.                                                 *)
(***************************************************************************)
\* lines 294-312: the call binds its keywords, the image is decoded and the
\* temporary filename drawn
P_Call(j) ==
    /\ pc[j] = "p_call"
    /\ \E name \in TempNames :
        LET bound == CallKw("process_image_to_video", pitv_params,
                            pitv_defaults, locals[j].kw)
            image_data == bound.named["image_data"]
            dec == b64decode(image_data.c)
        IN  IF ~bound.ok
            THEN Finish(j, Thrown(j, bound.exc))
            ELSE IF ~IsStr(image_data)
            THEN Finish(j, Thrown(j, Exc("TypeError",
                     "argument should be a bytes-like object or ASCII string")))
            ELSE IF ~dec.ok
            THEN Finish(j, Thrown(j, Exc("binascii.Error", "Incorrect padding")))
            ELSE /\ locals' = [locals EXCEPT ![j].named = bound.named,
                                             ![j].kwargs = bound.kwargs,
                                             ![j].image_bytes = dec.bytes,
                                             ![j].temp_filename = S(name)]
                 /\ pc' = [pc EXCEPT ![j] = "p_upload"]
                 /\ UNCHANGED <<heap, ret>>
    /\ UNCHANGED <<call, net, probe, procvars>>

\* line 315, upload_image: POST /upload/image
P_Upload(j) ==
    /\ pc[j] = "p_upload"
    /\ \E ok \in BOOLEAN :
        /\ net' = [net EXCEPT ![j].uploads = Count(@),
                              ![j].uploaded = locals[j].temp_filename,
                              ![j].upload_ok = ok,
                              ![j].refused = @ \/ ~ok]
        /\ IF ok
           THEN /\ pc' = [pc EXCEPT ![j] = "p_bind"]
                /\ UNCHANGED <<heap, ret, locals>>
           ELSE Finish(j, Thrown(j, Exc("RequestException", "upload_image")))
    /\ UNCHANGED <<call, probe, procvars>>

\* the parameters of create_wan_workflow that the call at 319-327 names
cww_params == {"image_filename", "prompt", "camera_type", "width", "height", "length"}

\* lines 319-327: create_wan_workflow
P_Bind(j) ==
    /\ pc[j] = "p_bind"
    /\ LET a == [image_filename |-> locals[j].temp_filename,
                 prompt |-> locals[j].named["prompt"],
                 camera_type |-> locals[j].named["camera_type"],
                 width |-> locals[j].named["width"],
                 height |-> locals[j].named["height"],
                 length |-> locals[j].named["length"],
                 kwargs |-> locals[j].kwargs]
       IN  IF DOMAIN locals[j].kwargs \cap cww_params # {}
           THEN Finish(j, Thrown(j, Exc("TypeError",
                    "got multiple values for keyword argument")))
           ELSE /\ heap' = create_wan_workflow(heap, j, a)
                /\ locals' = [locals EXCEPT ![j].has_workflow = TRUE,
                                            ![j].cw_args = a]
                /\ pc' = [pc EXCEPT ![j] = "p_submit"]
                /\ UNCHANGED ret
    /\ UNCHANGED <<call, net, probe, procvars>>

\* POST /prompt: the engine accepts and names the execution, or the request
\* fails, or the body has no prompt_id
SubmitAnswers ==
    { [kind |-> "ok", prompt_id |-> i] : i \in PromptIds }
    \cup { [kind |-> k, prompt_id |-> ""] : k \in {"RequestException", "KeyError"} }

\* a queue_prompt that tries a second time when the first request fails
P_SubmitRetry(j) ==
    /\ pc[j] = "p_submit"
    /\ \E first \in SubmitAnswers, ans \in SubmitAnswers :
        /\ net' = [net EXCEPT ![j].prompts =
                                  IF first.kind = "ok" THEN Count(@) ELSE Count(Count(@)),
                              ![j].submitted = Deref(heap, Workflow(j)),
                              ![j].refused = @ \/ ans.kind # "ok"]
        /\ IF ans.kind = "ok"
           THEN /\ locals' = [locals EXCEPT ![j].prompt_id = ans.prompt_id,
                                            ![j].elapsed = 0]
                /\ pc' = [pc EXCEPT ![j] = "w_loop"]
                /\ UNCHANGED <<heap, ret>>
           ELSE Finish(j, Thrown(j, Exc(ans.kind, "queue_prompt")))
    /\ UNCHANGED <<call, probe, procvars>>

\* line 330, queue_prompt, and line 75: the polling clock starts
P_Submit(j) ==
    /\ pc[j] = "p_submit"
    /\ \E ans \in SubmitAnswers :
        /\ net' = [net EXCEPT ![j].prompts = Count(@),
                              ![j].submitted = Deref(heap, Workflow(j)),
                              ![j].refused = @ \/ ans.kind # "ok"]
        /\ IF ans.kind = "ok"
           THEN /\ locals' = [locals EXCEPT ![j].prompt_id = ans.prompt_id,
                                            ![j].elapsed = 0]
                /\ pc' = [pc EXCEPT ![j] = "w_loop"]
                /\ UNCHANGED <<heap, ret>>
           ELSE Finish(j, Thrown(j, Exc(ans.kind, "queue_prompt")))
    /\ UNCHANGED <<call, probe, procvars>>

(***************************************************************************)
(* wait_for_completion.                                                    *)
(***************************************************************************)
\* line 77 without its test: a loop that never looks at the clock
LoopForever(elapsed, timeout) == TRUE
\* line 77: while time.time() - start_time < timeout
LoopCond(elapsed, timeout) == elapsed < timeout

Sleep(secs) == [act |-> "sleep", secs |-> secs, exc |-> NoExc]

\* a loop that gives up at the first transport error
poll_step_failfast(ans) ==
    IF ans.kind = "RequestException"
    THEN [act |-> "raise", secs |-> 0, exc |-> Exc("RequestException", "get_history")]
    ELSE IF ans.kind = "absent"
    THEN Sleep(PollSleep)
    ELSE IF ans.kind = "null"
    THEN [act |-> "raise", secs |-> 0,
          exc |-> Exc("TypeError", "argument of type 'NoneType' is not iterable")]
    ELSE IF ans.entry.has_outputs
    THEN [act |-> "return", secs |-> 0, exc |-> NoExc]
    ELSE IF ans.entry.status.status_str = "error"
    THEN [act |-> "raise", secs |-> 0,
          exc |-> ExcD("Exception", "ComfyUI execution failed",
                       ans.entry.status.messages)]
    ELSE Sleep(PollSleep)

\* a loop that takes a history without the id for a finished execution
poll_step_absent_returns(ans) ==
    IF ans.kind = "RequestException"
    THEN Sleep(RetrySleep)
    ELSE IF ans.kind = "absent"
    THEN [act |-> "return", secs |-> 0, exc |-> NoExc]
    ELSE IF ans.kind = "null"
    THEN [act |-> "raise", secs |-> 0,
          exc |-> Exc("TypeError", "argument of type 'NoneType' is not iterable")]
    ELSE IF ans.entry.has_outputs
    THEN [act |-> "return", secs |-> 0, exc |-> NoExc]
    ELSE IF ans.entry.status.status_str = "error"
    THEN [act |-> "raise", secs |-> 0,
          exc |-> ExcD("Exception", "ComfyUI execution failed",
                       ans.entry.status.messages)]
    ELSE Sleep(PollSleep)
\* lines 79-96: what one round of the loop does with the answer of
\* get_history: return the entry, raise, or sleep and go round again
poll_step(ans) ==
    IF ans.kind = "RequestException"
    THEN Sleep(RetrySleep)
    ELSE IF ans.kind = "absent"
    THEN Sleep(PollSleep)
    ELSE IF ans.kind = "null"
    THEN \* 'outputs' in None
         [act |-> "raise", secs |-> 0,
          exc |-> Exc("TypeError", "argument of type 'NoneType' is not iterable")]
    ELSE IF ans.entry.has_outputs
    THEN [act |-> "return", secs |-> 0, exc |-> NoExc]
    ELSE IF ans.entry.status.status_str = "error"
    THEN [act |-> "raise", secs |-> 0,
          exc |-> ExcD("Exception", "ComfyUI execution failed",
                       ans.entry.status.messages)]
    ELSE Sleep(PollSleep)

\* the answers of an engine that is still running the graph, or has run it
\* and reports a video under node '73'
HasVideo(entry) ==
    /\ entry.has_outputs
    /\ entry.outputs.has73
    /\ entry.outputs.has_videos
    /\ entry.outputs.videos # <<>>
Cooperative(ans) ==
    \/ ans.kind = "absent"
    \/ ans.kind = "entry" /\ ~ans.entry.has_outputs
                          /\ ans.entry.status.status_str = "none"
    \/ ans.kind = "entry" /\ HasVideo(ans.entry)
                          /\ ans.entry.status.status_str # "error"

\* one round of the loop: GET /history/{prompt_id}, then lines 81-96
W_Poll(j) ==
    /\ pc[j] = "w_loop"
    /\ LoopCond(locals[j].elapsed, TimeoutSecs)
    /\ \E ans \in HistoryAnswers, d \in 0..MaxLatency :
        LET step == poll_step(ans)
        IN  /\ net' = [net EXCEPT ![j].histories = Count(@),
                                  ![j].polled = @ \cup {locals[j].prompt_id},
                                  ![j].last_history = ans,
                                  ![j].refused = @ \/ ~Cooperative(ans)]
            /\ IF step.act = "sleep"
               THEN /\ locals' = [locals EXCEPT
                                    ![j].elapsed = Tick(@, step.secs + d)]
                    /\ UNCHANGED <<pc, heap, ret>>
               ELSE IF step.act = "return"
               THEN /\ locals' = [locals EXCEPT ![j].result = ans.entry]
                    /\ pc' = [pc EXCEPT ![j] = "p_extract"]
                    /\ UNCHANGED <<heap, ret>>
               ELSE Finish(j, Thrown(j, step.exc))
    /\ UNCHANGED <<call, probe, procvars>>

\* line 98: the loop ends because the time is up
W_Timeout(j) ==
    /\ pc[j] = "w_loop"
    /\ ~LoopCond(locals[j].elapsed, TimeoutSecs)
    /\ Finish(j, Thrown(j, Exc("TimeoutError", "Workflow execution timed out")))
    /\ net' = [net EXCEPT ![j].refused = TRUE]
    /\ UNCHANGED <<call, probe, procvars>>

(***************************************************************************)
(* process_image_to_video, after wait_for_completion has returned.         *)
(***************************************************************************)
\* an extraction that goes on to the fetch without a video reference
P_ExtractAnyway(j) ==
    /\ pc[j] = "p_extract"
    /\ LET outputs == IF locals[j].result.has_outputs
                      THEN locals[j].result.outputs ELSE NoOutputs
       IN  /\ locals' = [locals EXCEPT ![j].video_output =
                            IF outputs.videos = <<>> THEN NoVideo
                            ELSE outputs.videos[1]]
           /\ pc' = [pc EXCEPT ![j] = "p_fetch"]
           /\ UNCHANGED <<heap, ret>>
    /\ UNCHANGED <<call, net, probe, procvars>>

\* lines 337-345: the artifact reference under node '73'
P_Extract(j) ==
    /\ pc[j] = "p_extract"
    /\ LET outputs == IF locals[j].result.has_outputs
                      THEN locals[j].result.outputs ELSE NoOutputs
       IN  IF outputs.has73 /\ outputs.has_videos
           THEN IF outputs.videos = <<>>
                THEN Finish(j, Thrown(j, Exc("IndexError", "list index out of range")))
                ELSE /\ locals' = [locals EXCEPT ![j].video_output = outputs.videos[1]]
                     /\ pc' = [pc EXCEPT ![j] = "p_fetch"]
                     /\ UNCHANGED <<heap, ret>>
           ELSE Finish(j, Thrown(j, Exc("Exception",
                    "No video output found in workflow result")))
    /\ UNCHANGED <<call, net, probe, procvars>>

\* GET /view: the bytes of the artifact, or a transport or status error
FetchAnswers ==
    { [ok |-> TRUE, content |-> b] : b \in VideoSamples }
    \cup { [ok |-> FALSE, content |-> <<>>] }

\* lines 348-354, get_image; then, under handler, handler's lines 175-190
P_Fetch(j) ==
    /\ pc[j] = "p_fetch"
    /\ \E ans \in FetchAnswers :
        /\ net' = [net EXCEPT ![j].views = Count(@),
                              ![j].viewed = locals[j].video_output,
                              ![j].fetched = ans.content,
                              ![j].refused = @ \/ ~ans.ok]
        /\ IF ~ans.ok
           THEN Finish(j, Thrown(j, Exc("RequestException", "get_image")))
           ELSE IF call[j].entry = "handler"
           THEN Finish(j, handler_success(locals[j].validated_input, ans.content,
                                          locals[j].video_output.filename,
                                          locals[j].elapsed))
           ELSE Finish(j, pitv_return(ans.content, locals[j].video_output.filename))
    /\ UNCHANGED <<call, probe, procvars>>

(***************************************************************************)
(* The program: any number of invocations, interleaved at their HTTP calls.*)
(***************************************************************************)
JobStep(j) ==
    \/ H_Enter(j)
    \/ P_Call(j)
    \/ P_Upload(j)
    \/ P_Bind(j)
    \/ P_Submit(j)
    \/ W_Poll(j)
    \/ W_Timeout(j)
    \/ P_Extract(j)
    \/ P_Fetch(j)

Next == \E j \in Jobs : Invoke(j) \/ JobStep(j) \/ Recycle(j)

Spec == Init /\ [][Next]_vars

\* the thread inside wait_for_completion keeps running: each GET /history
\* ends, with an answer or with a RequestException, and each sleep ends
FairSpec == Spec /\ \A j \in Jobs : WF_vars(W_Poll(j) \/ W_Timeout(j))

(***************************************************************************)
(* The same invocations dispatched by a runtime that does not wait for one *)
(* job to end before it hands out the next: each worker thread runs one    *)
(* invocation, and the threads interleave at every statement that touches  *)
(* the template or the network.                                            *)
(***************************************************************************)
\* what each worker is handed: a job for handler, or a direct call; the
\* workers being interchangeable, the call with the default parameters is
\* the one of j1 and the call that names every parameter the one of j2
ConcurrentCalls(j) ==
    { [entry |-> "handler", job |-> [has_input |-> TRUE, is_mapping |-> TRUE,
                                     input |-> OnlyImage],
       kw |-> EmptyDict] }
    \cup { [entry |-> "direct", job |-> NoJob, kw |-> k] :
             k \in {x \in DirectCalls :
                      /\ x["image_data"] = Txt(ImgValid)
                      /\ (j = "j1") = (DOMAIN x = {"image_data", "prompt"})} }

Dispatch(j) ==
    /\ pc[j] = "idle"
    /\ \E c \in ConcurrentCalls(j) :
        /\ call' = [call EXCEPT ![j] = c]
        /\ pc' = [pc EXCEPT ![j] = IF c.entry = "handler" THEN "h_enter" ELSE "p_call"]
        /\ locals' = [locals EXCEPT ![j].kw = c.kw]
    /\ UNCHANGED <<heap, ret, net, probe, procvars>>

\* the engine of these runs answers GET /history without measurable delay,
\* and with one of: the execution is not in the history yet, it succeeded
\* with a video under node '73', it failed
PromptAnswers ==
    { [kind |-> "absent", entry |-> NoEntry],
      [kind |-> "entry",
       entry |-> [has_outputs |-> TRUE,
                  outputs |-> [has73 |-> TRUE, has_videos |-> TRUE,
                               videos |-> <<Video1>>],
                  status |-> [status_str |-> "success",
                              messages |-> "execution_success"]]],
      [kind |-> "entry",
       entry |-> [has_outputs |-> FALSE, outputs |-> NoOutputs,
                  status |-> [status_str |-> "error",
                              messages |-> "execution_error: out of memory"]]] }
PromptEngine(j) ==
    /\ net'[j].last_history \in PromptAnswers
    /\ locals'[j].elapsed \in {0, locals[j].elapsed, locals[j].elapsed + PollSleep}

\* one round of the polling loop against that engine
W_PollPrompt(j) == W_Poll(j) /\ PromptEngine(j)

ConcurrentStep(j) ==
    \/ H_Enter(j)
    \/ P_Call(j)
    \/ P_Upload(j)
    \/ P_Bind(j)
    \/ P_Submit(j)
    \/ W_PollPrompt(j)
    \/ W_Timeout(j)
    \/ P_Extract(j)
    \/ P_Fetch(j)

NextConcurrent == \E j \in Jobs : Dispatch(j) \/ ConcurrentStep(j)

SpecConcurrent == Init /\ [][NextConcurrent]_vars

(***************************************************************************)
(* validate_input on its own, over a wide set of inputs.                   *)
(***************************************************************************)
Opt(key, values) == {EmptyDict} \cup {key :> v : v \in values}
GoodImages == {Txt(ImgValid), Txt(ImgDataUrl), Txt(ImgLenient)}
BadImages == {N(123), Txt(ImgNotB64), Txt(ImgUnpadded), Txt(ImgDataUrlNoComma)}
WideInputs ==
    Opt("image", BadImages)
    \cup { ("image" :> img) @@ cam @@ w @@ h @@ l @@ sp @@ rest :
              img \in GoodImages,
              cam \in Opt("camera_type",
                          {S(x) : x \in valid_camera_types \cup {"Orbit", "zoom in"}}),
              w \in Opt("width", {N(255), N(256), N(1920), N(1921), S("wide")}),
              h \in Opt("height", {N(255), N(256), N(1920), N(1921)}),
              l \in Opt("length", {N(15), N(16), N(200), N(201)}),
              sp \in Opt("speed", {F(0), F(1), F(10), F(11), N(1), N(2)}),
              rest \in {EmptyDict,
                        ("prompt" :> S("a slow pan")) @@ ("fps" :> N(24))} }

Validate ==
    /\ ~probe.called
    /\ \E inp \in WideInputs :
        probe' = [called |-> TRUE, input |-> inp, out |-> validate_input(inp)]
    /\ UNCHANGED <<heap, pc, call, locals, ret, net, procvars>>

SpecValidate == Init /\ [][Validate]_vars

(***************************************************************************)
(* create_wan_workflow on its own: any sequence of calls, the graph of the *)
(* latest call of each caller being kept.                                  *)
(***************************************************************************)
BindArgs ==
    { [image_filename |-> S(f), prompt |-> pc2[1], camera_type |-> pc2[2],
       width |-> N(d[1]), height |-> N(d[2]), length |-> N(d[3]),
       kwargs |-> d[4]] :
          f \in TempNames,
          pc2 \in {<<InputDefaults.prompt, S("Zoom In")>>,
                   <<S("a slow pan"), S("Pan Left")>>,
                   <<S("a slow pan"), S("Orbit")>>},
          d \in {<<832, 448, 93, EmptyDict>>,
                 <<1024, 576, 49, ("speed" :> F(5)) @@ ("fps" :> N(24))>>} }

Create(j) ==
    /\ \E a \in BindArgs :
        /\ heap' = create_wan_workflow(Collect(heap, j), j, a)
        /\ locals' = [locals EXCEPT ![j].has_workflow = TRUE, ![j].cw_args = a]
    /\ UNCHANGED <<pc, call, ret, net, probe, procvars>>

NextBind == \E j \in Jobs : Create(j)

SpecBind == Init /\ [][NextBind]_vars

(***************************************************************************)
(* Start-up code.  A thread either runs __main__ (entry "__main__":        *)
(* initialize, then the registration of handler) or calls one function     *)
(* directly, as debug.py and the __main__ of model_manager.py do.          *)
(***************************************************************************)
StepsOfInitialize ==
    <<"volume", "check_and_download_models", "start_comfyui_server",
      "wait_for_comfyui">>
PcOf(f) ==
    CASE f = "volume" -> "i_volume"
      [] f = "check_and_download_models" -> "m_check"
      [] f = "start_comfyui_server" -> "s_guard"
      [] f = "wait_for_comfyui" -> "r_attempt"
      [] f = "__main__" -> "i_volume"
Returned == [kind |-> "return", exc |-> NoExc]
Raising(e) == [kind |-> "raise", exc |-> e]

\* a thread that goes on to the next statement of initialize whether or not
\* its function f raised
EndedAnyway(th, f, e) ==
    IF th.entry = f
    THEN [th EXCEPT !.pc = "done",
                    !.out = IF e = NoExc THEN Returned ELSE Raising(e)]
    ELSE LET n == Len(th.passed) + 1
         IN  IF n < Len(StepsOfInitialize)
             THEN [th EXCEPT !.passed = Append(@, f),
                             !.begun = Append(@, StepsOfInitialize[n + 1]),
                             !.pc = PcOf(StepsOfInitialize[n + 1])]
             ELSE [th EXCEPT !.passed = Append(@, f), !.pc = "main_register"]

\* the thread after its function f has ended with e (NoExc: it returned):
\* a direct call is over; inside initialize the next statement runs, and an
\* exception goes to the except of __main__
Ended(th, f, e) ==
    IF th.entry = f
    THEN [th EXCEPT !.pc = "done",
                    !.out = IF e = NoExc THEN Returned ELSE Raising(e)]
    ELSE IF e # NoExc
    THEN [th EXCEPT !.pc = "main_except", !.out = Raising(e)]
    ELSE LET n == Len(th.passed) + 1
         IN  IF n < Len(StepsOfInitialize)
             THEN [th EXCEPT !.passed = Append(@, f),
                             !.begun = Append(@, StepsOfInitialize[n + 1]),
                             !.pc = PcOf(StepsOfInitialize[n + 1])]
             ELSE [th EXCEPT !.passed = Append(@, f), !.pc = "main_register"]

\* a thread with nothing running calls function f
Enter(t, f) ==
    /\ thread[t].pc \in {"idle", "done"}
    /\ thread[t].passes < PassCap
    /\ thread' = [thread EXCEPT ![t] =
                    [NoThread EXCEPT !.pc = PcOf(f), !.entry = f,
                                     !.passes = thread[t].passes + 1,
                                     !.prior = thread[t].out]]

(***************************************************************************)
(* model_manager.py: check_and_download_models and download_file.          *)
(***************************************************************************)
Call_check_and_download_models(t) ==
    /\ Enter(t, "check_and_download_models")
    /\ UNCHANGED <<jobvars, disk, comfy_process, children, runtime>>

\* lines 87-115: the existence check of every manifest file
M_Check(t) ==
    /\ thread[t].pc = "m_check"
    /\ LET missing_models == SelectSeq(Manifest, LAMBDA q : ~exists(disk, q))
           th == [thread[t] EXCEPT
                     !.present = {q \in ManifestPaths : exists(disk, q)},
                     !.missing = missing_models]
       IN  thread' = [thread EXCEPT ![t] =
                IF missing_models = <<>>
                THEN Ended(th, "check_and_download_models", NoExc)
                ELSE [th EXCEPT !.pc = "d_request", !.k = 1]]
    /\ UNCHANGED <<jobvars, disk, comfy_process, children, runtime>>

\* a download loop that walks the whole manifest
CurrentOfManifest(th) == Manifest[th.k]

\* the file the download loop is at
Current(th) == th.missing[th.k]

\* download_file lines 50-58: the GET, its status, the content-length header
RequestOutcomes == {"ok", "ConnectionError", "HTTPError", "ValueError"}
D_Request(t) ==
    /\ thread[t].pc = "d_request"
    /\ \E o \in RequestOutcomes :
        thread' = [thread EXCEPT
                     ![t].requested = @ \cup {Current(thread[t])},
                     ![t].pc = IF o = "ok" THEN "d_open" ELSE "d_except"]
    /\ UNCHANGED <<jobvars, disk, comfy_process, children, runtime>>

\* line 63: open(filepath, 'wb') creates or truncates the file; it fails when
\* the category directory does not exist (nothing creates it) or is not
\* writable
OpenOutcomes(d, path) ==
    IF path.category \in d.dirs THEN {"ok", "PermissionError"}
    ELSE {"FileNotFoundError"}
D_Open(t) ==
    /\ thread[t].pc = "d_open"
    /\ LET path == Current(thread[t])
       IN  \E o \in OpenOutcomes(disk, path) :
            IF o = "ok"
            THEN /\ disk' = [disk EXCEPT !.files = @ \cup {path}]
                 /\ thread' = [thread EXCEPT ![t].opened = @ \cup {path},
                                             ![t].pc = "d_stream"]
            ELSE /\ thread' = [thread EXCEPT ![t].pc = "d_except"]
                 /\ UNCHANGED disk
    /\ UNCHANGED <<jobvars, comfy_process, children, runtime>>

\* lines 64-75: the chunks are streamed into the file
StreamOutcomes == {"ok", "ChunkedEncodingError", "OSError"}
D_Stream(t) ==
    /\ thread[t].pc = "d_stream"
    /\ \E o \in StreamOutcomes :
        thread' = [thread EXCEPT
                     ![t].pc = IF o = "ok" THEN "m_next" ELSE "d_except"]
    /\ UNCHANGED <<jobvars, disk, comfy_process, children, runtime>>

\* the same without the removal of the partial file
D_ExceptKeep(t) ==
    /\ thread[t].pc = "d_except"
    /\ thread' = [thread EXCEPT ![t] =
            Ended(thread[t], "check_and_download_models",
                  ExcD("Exception", "Failed to download required model",
                       Current(thread[t]).filename))]
    /\ UNCHANGED <<jobvars, disk, comfy_process, children, runtime>>

\* lines 77-82 and 123-124: the partial file is removed, download_file
\* returns False and check_and_download_models raises
D_Except(t) ==
    /\ thread[t].pc = "d_except"
    /\ LET path == Current(thread[t])
           gone == exists(disk, path)
           th == [thread[t] EXCEPT
                     !.unlinked = IF gone THEN @ \cup {path} ELSE @]
       IN  /\ disk' = [disk EXCEPT !.files = @ \ {path}]
           /\ thread' = [thread EXCEPT ![t] =
                Ended(th, "check_and_download_models",
                      ExcD("Exception", "Failed to download required model",
                           path.filename))]
    /\ UNCHANGED <<jobvars, comfy_process, children, runtime>>

\* a pass that stops after its first download
M_NextStop(t) ==
    /\ thread[t].pc = "m_next"
    /\ thread' = [thread EXCEPT ![t] =
            Ended(thread[t], "check_and_download_models", NoExc)]
    /\ UNCHANGED <<jobvars, disk, comfy_process, children, runtime>>

\* lines 118-126: the next missing file, or the end of the pass
M_Next(t) ==
    /\ thread[t].pc = "m_next"
    /\ thread' = [thread EXCEPT ![t] =
            IF thread[t].k < Len(thread[t].missing)
            THEN [thread[t] EXCEPT !.k = @ + 1, !.pc = "d_request"]
            ELSE Ended(thread[t], "check_and_download_models", NoExc)]
    /\ UNCHANGED <<jobvars, disk, comfy_process, children, runtime>>

Provision(t) ==
    \/ M_Check(t) \/ D_Request(t) \/ D_Open(t) \/ D_Stream(t)
    \/ D_Except(t) \/ M_Next(t)

\* check_and_download_models called any number of times in a row, on any
\* volume
InitProvision ==
    InitJobs /\ \E d \in {x \in Disks : x.comfy_dir} : InitProcess(d)
NextProvision == Call_check_and_download_models("t1") \/ Provision("t1")
SpecProvision == InitProvision /\ [][NextProvision]_vars

(***************************************************************************)
(* handler.py: start_comfyui_server.  comfy_process is 0 for None, or the  *)
(* number of the subprocess the handle refers to.                          *)
(***************************************************************************)
Call_start_comfyui_server(t) ==
    /\ Enter(t, "start_comfyui_server")
    /\ UNCHANGED <<jobvars, disk, comfy_process, children, runtime>>

\* Popen.poll() is None
Running(c) == c # 0 /\ children[c] = "running"

\* lines 32-34: the guard on the module-level handle
S_Guard(t) ==
    /\ thread[t].pc = "s_guard"
    /\ thread' = [thread EXCEPT ![t] =
            IF Running(comfy_process)
            THEN Ended(thread[t], "start_comfyui_server", NoExc)
            ELSE [thread[t] EXCEPT !.pc = "s_popen"]]
    /\ UNCHANGED <<jobvars, disk, comfy_process, children, runtime>>

\* lines 36-65: the directory check and subprocess.Popen, which spawns the
\* engine and stores the handle, or raises
S_Popen(t) ==
    /\ thread[t].pc = "s_popen"
    /\ IF ~disk.comfy_dir
       THEN /\ thread' = [thread EXCEPT ![t] =
                    Ended(thread[t], "start_comfyui_server",
                          Exc("Exception", "ComfyUI directory not found at /app/ComfyUI"))]
            /\ UNCHANGED <<comfy_process, children>>
       ELSE \/ /\ Len(children) < MaxSpawn
               /\ children' = Append(children, "running")
               /\ comfy_process' = Len(children) + 1
               /\ thread' = [thread EXCEPT ![t].pc = "s_check"]
            \/ /\ thread' = [thread EXCEPT ![t] =
                    Ended(thread[t], "start_comfyui_server",
                          Exc("OSError", "Popen"))]
               /\ UNCHANGED <<comfy_process, children>>
    /\ UNCHANGED <<jobvars, disk, runtime>>

\* lines 67-84: after the sleep, has the subprocess of the handle exited
S_Check(t) ==
    /\ thread[t].pc = "s_check"
    /\ thread' = [thread EXCEPT ![t] =
            Ended(thread[t], "start_comfyui_server",
                  IF Running(comfy_process) THEN NoExc
                  ELSE Exc("Exception", "ComfyUI failed to start"))]
    /\ UNCHANGED <<jobvars, disk, comfy_process, children, runtime>>

\* an engine subprocess exits on its own
ChildExit(c) ==
    /\ c \in DOMAIN children
    /\ children[c] = "running"
    /\ children' = [children EXCEPT ![c] = "exited"]
    /\ UNCHANGED <<jobvars, disk, thread, comfy_process, runtime>>

StartEngine(t) == S_Guard(t) \/ S_Popen(t) \/ S_Check(t)

\* start_comfyui_server called by two threads, any number of times
InitEngine ==
    InitJobs /\ \E b \in BOOLEAN : InitProcess([FullDisk EXCEPT !.comfy_dir = b])
NextEngine ==
    \/ \E t \in Threads : Call_start_comfyui_server(t) \/ StartEngine(t)
    \/ \E c \in 1..MaxSpawn : ChildExit(c)
SpecEngine == InitEngine /\ [][NextEngine]_vars

(***************************************************************************)
(* handler.py: wait_for_comfyui.                                           *)
(***************************************************************************)
\* what the GET on the root endpoint comes to: a status code, or an
\* exception when nothing answers within the request timeout
ReadyAnswers == {"200", "503", "ConnectionError", "Timeout"}

\* a loop that never runs out of attempts
RetryForever(i) == TRUE

\* line 91: for i in range(max_retries)
RetryCond(i) == i < max_retries

Bump(n) == IF n > max_retries THEN n ELSE n + 1

\* lines 91-103: one attempt
R_Attempt(t) ==
    /\ thread[t].pc = "r_attempt"
    /\ RetryCond(thread[t].i)
    /\ \E a \in ReadyAnswers :
        LET th == [thread[t] EXCEPT !.gets = Bump(@), !.answer = a]
        IN  thread' = [thread EXCEPT ![t] =
                IF a = "200"
                THEN Ended(th, "wait_for_comfyui", NoExc)
                ELSE [th EXCEPT !.i = Bump(@)]]
    /\ UNCHANGED <<jobvars, disk, comfy_process, children, runtime>>

\* line 105: the attempts are used up
R_GiveUp(t) ==
    /\ thread[t].pc = "r_attempt"
    /\ ~RetryCond(thread[t].i)
    /\ thread' = [thread EXCEPT ![t] =
            Ended(thread[t], "wait_for_comfyui",
                  Exc("Exception", "ComfyUI failed to become ready"))]
    /\ UNCHANGED <<jobvars, disk, comfy_process, children, runtime>>

WaitReady(t) == R_Attempt(t) \/ R_GiveUp(t)

(***************************************************************************)
(* handler.py: initialize and __main__.                                    *)
(***************************************************************************)
\* line 223: the process starts and calls initialize
Main_Start(t) ==
    /\ thread[t].passes = 0
    /\ Enter(t, "__main__")
    /\ UNCHANGED <<jobvars, disk, comfy_process, children, runtime>>

\* lines 198-205: the volume mount check; Ended goes on with
\* check_and_download_models, start_comfyui_server and wait_for_comfyui
I_Volume(t) ==
    /\ thread[t].pc = "i_volume"
    /\ LET th == [thread[t] EXCEPT !.begun = <<"volume">>]
       IN  thread' = [thread EXCEPT ![t] =
                Ended(th, "volume",
                      IF disk.mounted THEN NoExc
                      ELSE Exc("Exception", "Volume not mounted"))]
    /\ UNCHANGED <<jobvars, disk, comfy_process, children, runtime>>

\* lines 226-227: runpod.serverless.start({"handler": handler})
Main_Register(t) ==
    /\ thread[t].pc = "main_register"
    /\ runtime' = [runtime EXCEPT !.registered = TRUE]
    /\ thread' = [thread EXCEPT ![t].pc = "serving"]
    /\ UNCHANGED <<jobvars, disk, comfy_process, children>>

\* the runtime takes a job for the registered handler
Accept(t) ==
    /\ thread[t].pc = "serving"
    /\ runtime.registered
    /\ runtime.accepted < AcceptCap
    /\ runtime' = [runtime EXCEPT !.accepted = @ + 1]
    /\ UNCHANGED <<jobvars, disk, thread, comfy_process, children>>

\* runpod.serverless.start returns, or raises
Serve_End(t) ==
    /\ thread[t].pc = "serving"
    /\ \/ /\ thread' = [thread EXCEPT ![t].pc = "exited", ![t].out = Returned]
          /\ runtime' = [runtime EXCEPT !.exit_code = 0]
       \/ /\ thread' = [thread EXCEPT
                          ![t].pc = "main_except",
                          ![t].out = Raising(Exc("Exception", "runpod.serverless.start"))]
          /\ UNCHANGED runtime
    /\ UNCHANGED <<jobvars, disk, comfy_process, children>>

\* lines 229-231: except Exception: sys.exit(1)
Main_Except(t) ==
    /\ thread[t].pc = "main_except"
    /\ thread' = [thread EXCEPT ![t].pc = "exited"]
    /\ runtime' = [runtime EXCEPT !.exit_code = 1]
    /\ UNCHANGED <<jobvars, disk, comfy_process, children>>

\* the process from its start, on any filesystem
InitBoot == InitJobs /\ \E d \in Disks : InitProcess(d)
NextBoot ==
    \/ Main_Start("t1") \/ I_Volume("t1") \/ Provision("t1")
    \/ StartEngine("t1") \/ WaitReady("t1")
    \/ Main_Register("t1") \/ Accept("t1") \/ Serve_End("t1")
    \/ Main_Except("t1")
    \/ \E c \in 1..MaxSpawn : ChildExit(c)
SpecBoot == InitBoot /\ [][NextBoot]_vars

\* the same from a few filesystems (no volume, every file present, the last
\* manifest file missing), where the main thread keeps running and each GET
\* of the readiness wait ends, with a response or at its request timeout of
\* 10 seconds
FewDisks ==
    {d \in Disks :
        ~d.mounted \/ (/\ d.dirs = Range(Categories)
                       /\ ManifestPaths \ d.files \subseteq {Manifest[Len(Manifest)]})}
InitBootFew == InitJobs /\ \E d \in FewDisks : InitProcess(d)
FairBoot ==
    /\ InitBootFew /\ [][NextBoot]_vars
    /\ WF_vars(WaitReady("t1")) /\ WF_vars(Main_Except("t1"))

(***************************************************************************)
(* The job schema as the specification states it, written without the      *)
(* program's validate_input.                                               *)
(***************************************************************************)
OptionalKeys == {"prompt", "camera_type", "width", "height", "length", "speed", "fps"}
Supplied(inp, k) == Get(inp, k, InputDefaults[k])
\* the image field is a string that base64.b64decode accepts, after an
\* optional data-URL prefix
ImageDecodable(inp) == "image" \in DOMAIN inp /\ inp["image"] \in GoodImages
\* the base64 payload of an accepted image
Payload(img) == IF img = Txt(ImgDataUrl) THEN Txt(ImgValid) ELSE img
WellTyped(inp) ==
    /\ IsStr(Supplied(inp, "camera_type"))
    /\ \A k \in {"width", "height", "length", "speed"} : IsNum(Supplied(inp, k))
Within(v, lo_tenths, hi_tenths) ==
    IsNum(v) /\ lo_tenths <= Tenths(v) /\ Tenths(v) <= hi_tenths
SchemaViolated(inp) ==
    \/ Supplied(inp, "camera_type") \notin
           {S("Zoom In"), S("Static"), S("Zoom Out"), S("Pan Left"), S("Pan Right")}
    \/ ~Within(Supplied(inp, "width"), 2560, 19200)
    \/ ~Within(Supplied(inp, "height"), 2560, 19200)
    \/ ~Within(Supplied(inp, "length"), 160, 2000)
    \/ ~Within(Supplied(inp, "speed"), 1, 10)
PassesValidation(inp) ==
    ImageDecodable(inp) /\ WellTyped(inp) /\ ~SchemaViolated(inp)
IsHandlerJob(j) == call[j].entry = "handler"
HasInputDict(j) == call[j].job.has_input /\ call[j].job.is_mapping

(***************************************************************************)
(* C1..C10                                                                 *)
(***************************************************************************)

\* C1 (as claimed): a handler job whose input passes validation and whose
\* every engine call was answered well (upload and submission accepted, a
\* video reported under node '73', the artifact served) ends with a success
\* response that carries the engine's filename and the base64 of the bytes.
C1_EndToEndSuccess ==
    \A j \in Jobs :
        ( /\ IsHandlerJob(j) /\ pc[j] = "done"
          /\ HasInputDict(j) /\ PassesValidation(call[j].job.input)
          /\ ~net[j].refused )
        => /\ ret[j].kind = "response"
           /\ ret[j].success
           /\ ret[j].filename = net[j].viewed.filename
           /\ ret[j].video = b64encode(net[j].fetched)

\* C2: a handler job whose input fails validation ends with an error
\* response, success false, whose error was not raised by the processing
\* stage, and sends no HTTP request to the engine at any time.
FailsValidation(j) ==
    IsHandlerJob(j) /\ HasInputDict(j) /\ ~PassesValidation(call[j].job.input)
C2_FailFastOnValidation ==
    \A j \in Jobs :
        FailsValidation(j)
        => /\ net[j] = NoNet
           /\ pc[j] = "done" => /\ ret[j].kind = "response"
                                /\ ~ret[j].success
                                /\ ret[j].exc # NoExc
                                /\ ret[j].exc.detail # "process_image_to_video"
C2_Witness ==
    \E j \in Jobs :
        /\ FailsValidation(j) /\ pc[j] = "done"
        /\ call[j].job.input = [image |-> Txt(ImgValid), camera_type |-> S("Orbit")]
        /\ ret[j].kind = "response" /\ ~ret[j].success
        /\ ret[j].exc.type = "ValueError"

\* C3 (as claimed): whatever job object handler is invoked with, it ends
\* with a structured response (success, or an error with success false)
\* and never with an exception.
C3_HandlerNeverRaises ==
    \A j \in Jobs :
        (IsHandlerJob(j) /\ pc[j] = "done")
        => /\ ret[j].kind = "response"
           /\ ret[j].success \/ ret[j].exc # NoExc

\* C4 (as claimed): whenever the latest history poll found the entry of the
\* execution with status_str 'error', wait_for_completion has raised the
\* execution-failure error carrying the engine's status; the entry is not
\* returned as a result.
C4_ErrorStatusRaises ==
    \A j \in Jobs :
        ( /\ net[j].last_history.kind = "entry"
          /\ net[j].last_history.entry.status.status_str = "error" )
        => /\ pc[j] = "done"
           /\ ret[j].exc.msg = "ComfyUI execution failed"
           /\ ret[j].exc.detail = net[j].last_history.entry.status.messages

\* C5: the polling loop always ends; when it ends without any poll having
\* found outputs (or an error status, or a broken entry), it ends with
\* TimeoutError and nothing is returned; and TimeoutError is raised only
\* once the timeout has elapsed.
InLoop(j) == pc[j] = "w_loop"
StillRunning(ans) ==
    \/ ans.kind \in {"RequestException", "absent"}
    \/ ans.kind = "entry" /\ ~ans.entry.has_outputs
                          /\ ans.entry.status.status_str # "error"
C5_PollingTimesOut ==
    /\ \A j \in Jobs : InLoop(j) ~> ~InLoop(j)
    /\ [](\A j \in Jobs :
            (pc[j] = "done" /\ net[j].histories > 0
                /\ StillRunning(net[j].last_history))
            => (ret[j].exc.type = "TimeoutError" /\ ret[j].kind # "return"))
    /\ [][\A j \in Jobs :
            (InLoop(j) /\ ret'[j].exc.type = "TimeoutError")
            => locals[j].elapsed >= TimeoutSecs]_vars
C5_Witness ==
    \E j \in Jobs :
        /\ pc[j] = "done" /\ net[j].histories > 0
        /\ net[j].last_history.kind = "RequestException"
        /\ ret[j].exc.type = "TimeoutError"

\* C6: no invocation sends more than one POST /prompt, and one whose upload
\* succeeded has sent exactly one by the time it ends, whatever happened
\* while polling or fetching.
C6_OneSubmission ==
    \A j \in Jobs :
        /\ net[j].prompts <= 1
        /\ (pc[j] = "done" /\ net[j].upload_ok) => net[j].prompts = 1
C6_Witness ==
    \E j \in Jobs :
        /\ pc[j] = "done" /\ net[j].upload_ok /\ net[j].prompts = 1
        /\ net[j].histories > 1
        /\ ret[j].exc.type = "TimeoutError"

\* C7: after any sequence of create_wan_workflow calls the template has its
\* initial value, and no object of a returned graph is an object of the
\* template or of another returned graph.
Objects(ref) == Reach(heap, AddrOf(ref))
HasGraph(j) == locals[j].has_workflow
C7_TemplateNeverMutated ==
    /\ Deref(heap, WORKFLOW_TEMPLATE) = TemplateLiteral
    /\ \A j \in Jobs :
        HasGraph(j)
        => /\ Objects(Workflow(j)) \cap Objects(WORKFLOW_TEMPLATE) = {}
           /\ \A k \in Jobs \ {j} :
                HasGraph(k) => Objects(Workflow(j)) \cap Objects(Workflow(k)) = {}
C7_Witness ==
    /\ \A j \in Jobs : HasGraph(j)
    /\ \E j \in Jobs, k \in Jobs :
        /\ Deref(heap, Workflow(j))["87"].inputs.width = N(1024)
        /\ Deref(heap, Workflow(k))["87"].inputs.width = N(832)
        /\ Deref(heap, Workflow(j))["79"].inputs.image
               # Deref(heap, Workflow(k))["79"].inputs.image

\* C8: the graph create_wan_workflow returns has the six bound fields equal
\* to its arguments and every other node, key and value equal to the
\* template's.
Bound(a, n, k) ==
    CASE n = "79" /\ k = "image" -> a.image_filename
      [] n = "81" /\ k = "text" -> a.prompt
      [] n = "87" /\ k = "camera_pose" -> a.camera_type
      [] n = "87" /\ k = "width" -> a.width
      [] n = "87" /\ k = "height" -> a.height
      [] n = "87" /\ k = "length" -> a.length
      [] OTHER -> TemplateLiteral[n].inputs[k]
C8_OnlyFixedFieldsDiffer ==
    \A j \in Jobs :
        HasGraph(j)
        => LET g == Deref(heap, Workflow(j))
           IN  /\ DOMAIN g = NodeIds
               /\ \A n \in NodeIds :
                    /\ DOMAIN g[n] = {"class_type", "inputs"}
                    /\ g[n].class_type = TemplateLiteral[n].class_type
                    /\ DOMAIN g[n].inputs = DOMAIN TemplateLiteral[n].inputs
                    /\ \A k \in DOMAIN g[n].inputs :
                         g[n].inputs[k] = Bound(locals[j].cw_args, n, k)
C8_Witness ==
    \E j \in Jobs :
        /\ HasGraph(j)
        /\ locals[j].cw_args.kwargs # EmptyDict
        /\ Deref(heap, Workflow(j))["87"].inputs.camera_pose = S("Pan Left")
        /\ Deref(heap, Workflow(j))["87"].inputs.height = N(576)
        /\ Deref(heap, Workflow(j))["87"].inputs.speed = F(2)

\* C9: on an input with a decodable image, validate_input raises when the
\* camera type is outside the enum or width, height, length or speed is not
\* a number of its range (ValueError when the fields have the schema's
\* types), and otherwise returns the supplied values, the defaults standing
\* in for omitted fields.
C9_ValidateAgreesWithSchema ==
    (probe.called /\ ImageDecodable(probe.input))
    => IF SchemaViolated(probe.input)
       THEN /\ ~probe.out.ok
            /\ WellTyped(probe.input) => probe.out.exc.type = "ValueError"
       ELSE /\ probe.out.ok
            /\ DOMAIN probe.out.value = OptionalKeys \cup {"image"}
            /\ probe.out.value["image"] = Payload(probe.input["image"])
            /\ \A k \in OptionalKeys :
                 probe.out.value[k] = Supplied(probe.input, k)
C9_Witness ==
    /\ probe.called /\ probe.out.ok
    /\ DOMAIN probe.input = {"image", "length", "width"}
    /\ probe.input["length"] = N(200)
    /\ probe.input["width"] = N(256)
    /\ probe.out.value["speed"] = F(2)
    /\ probe.out.value["camera_type"] = S("Zoom In")

\* C10 (as claimed): every value of the parameter set handed to
\* process_image_to_video, which is the set handler reports as
\* parameters_used, is the value carried by the graph that was submitted.
Carried(g, k) ==
    CASE k = "prompt" -> g["81"].inputs.text
      [] k = "camera_type" -> g["87"].inputs.camera_pose
      [] k = "width" -> g["87"].inputs.width
      [] k = "height" -> g["87"].inputs.height
      [] k = "length" -> g["87"].inputs.length
      [] k = "speed" -> g["87"].inputs.speed
      [] k = "fps" -> g["83"].inputs.fps
C10_ParametersUsedAreSubmitted ==
    \A j \in Jobs :
        (net[j].prompts > 0 /\ pc[j] # "done")
        => \A k \in OptionalKeys \cap DOMAIN locals[j].kw :
              locals[j].kw[k] = Carried(net[j].submitted, k)

\* C11: a pass that starts with every manifest file present ends at its
\* existence check, returning without any GET, open or unlink and with the
\* disk as it was; and a pass made directly after a pass that returned
\* normally requests, writes and deletes nothing.
InProvision(t) == thread[t].entry = "check_and_download_models"
Untouched(th) == th.requested = {} /\ th.opened = {} /\ th.unlinked = {}
C11_ProvisioningIdempotent ==
    /\ [][\A t \in Threads :
            (InProvision(t) /\ thread[t].pc = "m_check"
                /\ ManifestPaths \subseteq disk.files
                /\ thread'[t] # thread[t])
            => /\ thread'[t].pc = "done"
               /\ thread'[t].out.kind = "return"
               /\ Untouched(thread'[t])
               /\ disk' = disk]_vars
    /\ [](\A t \in Threads :
            (InProvision(t) /\ thread[t].prior.kind = "return")
            => Untouched(thread[t]))
C11_Witness ==
    \E t \in Threads :
        /\ InProvision(t) /\ thread[t].passes = 2 /\ thread[t].pc = "done"
        /\ thread[t].prior.kind = "return" /\ thread[t].out.kind = "return"
        /\ Untouched(thread[t])
        /\ disk.files = ManifestPaths

\* C12: when a download has failed, the pass has raised, no file is at the
\* path of the failed download, and no GET was made for a missing file that
\* comes after it; and a failure at any point of a download leads to that
\* raise as the next thing the pass does.
DownloadFailed(th) == th.out.exc.msg = "Failed to download required model"
C12_DownloadFailureAborts ==
    /\ [](\A t \in Threads :
            (InProvision(t) /\ DownloadFailed(thread[t]))
            => LET th == thread[t]
               IN  /\ th.pc = "done" /\ th.out.kind = "raise"
                   /\ th.out.exc.detail = th.missing[th.k].filename
                   /\ th.missing[th.k] \notin disk.files
                   /\ \A x \in (th.k + 1)..Len(th.missing) :
                        th.missing[x] \notin th.requested \cup th.opened)
    /\ [][\A t \in Threads :
            (InProvision(t) /\ thread[t].pc = "d_except"
                /\ thread'[t] # thread[t])
            => DownloadFailed(thread'[t])]_vars
C12_Witness ==
    \E t \in Threads :
        /\ InProvision(t) /\ DownloadFailed(thread[t])
        /\ thread[t].k = 2 /\ Len(thread[t].missing) > 2
        /\ thread[t].missing[2] \in thread[t].unlinked
        /\ thread[t].missing[1] \in disk.files

\* C13: whenever check_and_download_models has returned normally, every
\* manifest file exists on the volume.
C13_ProvisioningPostcondition ==
    \A t \in Threads :
        (InProvision(t) /\ thread[t].pc = "done"
            /\ thread[t].out.kind = "return")
        => \A c \in DOMAIN MODELS_CONFIG :
             \A f \in 1..Len(MODELS_CONFIG[c]) :
                [category |-> c, filename |-> MODELS_CONFIG[c][f]] \in disk.files
C13_Witness ==
    \E t \in Threads :
        /\ InProvision(t) /\ thread[t].pc = "done"
        /\ thread[t].out.kind = "return"
        /\ thread[t].passes = 1
        /\ Cardinality(thread[t].opened) = 3
        /\ disk.files = ManifestPaths

\* C14: initialize begins its steps in the order volume check, provisioner,
\* engine start, readiness wait, each only after every earlier one has
\* succeeded; no download, spawn or readiness GET happens before the steps
\* ahead of it have passed; the handler is registered, and a job accepted,
\* only after all four have passed; and once a start-up step has raised the
\* handler is never registered, no job is accepted, and the process exits
\* with code 1 at its next step.
StartupOrder ==
    <<"volume", "check_and_download_models", "start_comfyui_server",
      "wait_for_comfyui">>
IsPrefix(a, b) == Len(a) <= Len(b) /\ \A x \in 1..Len(a) : a[x] = b[x]
InMain(t) == thread[t].entry = "__main__"
StartupRaised(t) ==
    InMain(t) /\ thread[t].out.kind = "raise" /\ Len(thread[t].passed) < 4
C14_StartupOrderAndFatality ==
    /\ [](\A t \in Threads :
            InMain(t)
            => LET th == thread[t]
               IN  /\ IsPrefix(th.begun, StartupOrder)
                   /\ IsPrefix(th.passed, th.begun)
                   /\ Len(th.begun) <= Len(th.passed) + 1
                   /\ th.requested # {} => Len(th.passed) >= 1 /\ disk.mounted
                   /\ Len(children) > 0 => Len(th.passed) >= 2
                   /\ th.gets > 0 => Len(th.passed) >= 3
                   /\ th.pc \in {"main_register", "serving"}
                        => th.passed = StartupOrder
                   /\ StartupRaised(t)
                        => /\ th.pc \in {"main_except", "exited"}
                           /\ th.pc = "exited" => runtime.exit_code = 1)
    /\ [](runtime.registered \/ runtime.accepted > 0
            => \E t \in Threads : InMain(t) /\ thread[t].passed = StartupOrder)
    /\ []((\E t \in Threads : StartupRaised(t))
            => ~runtime.registered /\ runtime.accepted = 0)
    /\ [][\A t \in Threads :
            (StartupRaised(t) /\ thread'[t] # thread[t])
            => thread'[t].pc = "exited" /\ runtime'.exit_code = 1]_vars
C14_Witness ==
    \E t \in Threads :
        /\ InMain(t) /\ thread[t].pc = "serving"
        /\ runtime.registered /\ runtime.accepted = 2
        /\ Cardinality(thread[t].opened) = 2
        /\ thread[t].gets = 3
        /\ Len(children) = 1

\* C15 (as claimed): over any sequence and interleaving of
\* start_comfyui_server calls at most one engine subprocess is ever spawned,
\* and at no time are two of them running.
C15_EngineStartedAtMostOnce ==
    /\ Len(children) <= 1
    /\ Cardinality({c \in DOMAIN children : children[c] = "running"}) <= 1

\* C16 (as claimed): the attempt of wait_for_comfyui on which the GET gets an
\* HTTP response, whatever its status code, is the one at which it returns
\* success.
GotResponse(th) == th.answer \in {"200", "503"}
C16_ReadyOnAnyResponse ==
    \A t \in Threads :
        (InMain(t) /\ GotResponse(thread[t]))
        => /\ thread[t].pc # "r_attempt"
           /\ thread[t].out.exc.msg # "ComfyUI failed to become ready"
           /\ Len(thread[t].passed) = 4

\* C17: wait_for_comfyui makes at most 60 GETs; it always ends; and when it
\* ends by raising, all 60 attempts have failed, initialize is aborted, and
\* the handler is never registered.
InWait(t) == thread[t].pc = "r_attempt"
NotReady(th) == th.out.exc.msg = "ComfyUI failed to become ready"
C17_ReadinessWaitBounded ==
    /\ [](\A t \in Threads : thread[t].gets <= 60)
    /\ \A t \in Threads : InWait(t) ~> ~InWait(t)
    /\ [](\A t \in Threads :
            (InMain(t) /\ NotReady(thread[t]))
            => /\ thread[t].gets = 60
               /\ thread[t].answer # "200"
               /\ thread[t].pc \in {"main_except", "exited"}
               /\ Len(thread[t].passed) = 3
               /\ ~runtime.registered)
    /\ \A t \in Threads :
            (InMain(t) /\ NotReady(thread[t])) ~> (runtime.exit_code = 1)
C17_Witness ==
    \E t \in Threads :
        /\ InMain(t) /\ NotReady(thread[t])
        /\ thread[t].gets = 60
        /\ thread[t].answer = "Timeout"
        /\ thread[t].pc = "exited" /\ runtime.exit_code = 1

\* C18: a poll that ends in a transport error leaves the invocation in the
\* polling loop with nothing raised, and while the timeout has not elapsed
\* another poll is possible; the loop is left only with an entry that has
\* outputs, with the engine's error, or at the timeout (the answers being
\* JSON objects); upload, submission and fetch are each requested at most
\* once, and a failed one ends the invocation with its error at once.
Stepped(j) == <<pc[j], net[j], locals[j], ret[j]>>' # <<pc[j], net[j], locals[j], ret[j]>>
Polled(j) == InLoop(j) /\ locals[j].elapsed < TimeoutSecs /\ Stepped(j)
VideoUnder73(ans) ==
    /\ ans.kind = "entry" /\ ans.entry.has_outputs
    /\ ans.entry.outputs.has73 /\ ans.entry.outputs.has_videos
    /\ Len(ans.entry.outputs.videos) > 0
C19_ProtocolOrder ==
    \A j \in Jobs :
        /\ net[j].prompts > 0
             => /\ net[j].uploads = 1 /\ net[j].upload_ok
                /\ net[j].submitted["79"].inputs.image = net[j].uploaded
        /\ net[j].histories > 0
             => /\ net[j].prompts = 1
                /\ Cardinality(net[j].polled) = 1
                /\ net[j].polled \subseteq {"exec-1", "exec-2"}
        /\ net[j].views > 0
             => /\ net[j].histories > 0
                /\ VideoUnder73(net[j].last_history)
                /\ net[j].viewed = net[j].last_history.entry.outputs.videos[1]
        /\ ( /\ pc[j] \in {"p_fetch", "done"}
             /\ net[j].last_history.kind = "entry"
             /\ net[j].last_history.entry.has_outputs
             /\ ~VideoUnder73(net[j].last_history) )
             => /\ pc[j] = "done"
                /\ net[j].views = 0
                /\ ret[j].exc # NoExc
C19_Witness ==
    \E j \in Jobs :
        /\ pc[j] = "done" /\ ret[j].kind = "return"
        /\ net[j].uploads = 1 /\ net[j].prompts = 1
        /\ net[j].histories = 2 /\ net[j].views = 1
        /\ net[j].viewed.filename = "ComfyUI_00001_.mp4"

\* C20: wait_for_completion is left in exactly one of three ways: by
\* returning (only on an answer that maps the id to an entry with outputs,
\* which is the result), by raising the execution failure, or by raising
\* TimeoutError; and an answer without the id leaves it polling (the
\* answers being JSON objects).
Completed(j) == pc'[j] = "p_extract" /\ ret'[j] = ret[j]
Failed(j) == pc'[j] = "done" /\ ret'[j].exc.msg = "ComfyUI execution failed"
TimedOut(j) == pc'[j] = "done" /\ ret'[j].exc.type = "TimeoutError"
Touched(th) == th.requested \cup th.opened \cup th.unlinked
Checked(t) == InProvision(t) /\ thread[t].pc # "m_check"
C23_PresentFilesLeftAlone ==
    /\ [](\A t \in Threads :
            Checked(t)
            => /\ thread[t].present \subseteq disk.files
               /\ thread[t].present \cap Touched(thread[t]) = {}
               /\ Touched(thread[t]) \subseteq Range(thread[t].missing))
    /\ [][\A t \in Threads :
            (Checked(t) /\ thread'[t] # thread[t] /\ InProvision(t)')
            => \A q \in ManifestPaths :
                 (q \in disk.files) # (q \in disk'.files)
                 => q \in Range(thread[t].missing)]_vars
C23_Witness ==
    \E t \in Threads :
        /\ InProvision(t) /\ thread[t].pc = "done"
        /\ thread[t].out.kind = "raise"
        /\ Cardinality(thread[t].present) = 3
        /\ Cardinality(thread[t].opened) = 2
        /\ Cardinality(thread[t].unlinked) = 1
        /\ thread[t].present \subseteq disk.files

\* C21: no two jobs upload their image under the same temporary filename,
\* so that the image reference in the graph a job submits (the name the job
\* itself uploaded under) is the name of no other job's upload.
Uploaded(j) == net[j].uploads > 0 /\ net[j].upload_ok
C21_UniqueTemporaryFilename ==
    /\ \A j \in Jobs :
         net[j].prompts > 0
         => /\ Uploaded(j)
            /\ net[j].submitted["79"].inputs.image = net[j].uploaded
    /\ \A j, k \in Jobs :
         (j # k /\ Uploaded(j) /\ Uploaded(k))
         => net[j].uploaded # net[k].uploaded

\* C22: however two invocations interleave, (a) the graph an invocation
\* submits is the graph create_wan_workflow builds from the untouched
\* template with that invocation's own prompt, camera type, width, height,
\* length and uploaded filename; (b) it polls with one execution id only,
\* the one it holds from its own submission until it ends, and it fetches
\* the artifact reference of the history entry it received itself; (c) every
\* object of WORKFLOW_TEMPLATE keeps its initial content; (d) a step of one
\* invocation changes nothing of the other: not its locals, its requests,
\* its outcome, nor any object of the graph it holds.
KwOf(j) ==
    IF call[j].entry = "handler"
    THEN validate_input(call[j].job.input).value
    ELSE call[j].kw
OwnArgs(j) ==
    LET bound == CallKw("process_image_to_video", pitv_params, pitv_defaults,
                        KwOf(j))
    IN  [image_filename |-> net[j].uploaded,
         prompt |-> bound.named["prompt"],
         camera_type |-> bound.named["camera_type"],
         width |-> bound.named["width"],
         height |-> bound.named["height"],
         length |-> bound.named["length"],
         kwargs |-> bound.kwargs]
Alone(j) ==
    Deref(create_wan_workflow(InitHeap, j, OwnArgs(j)), Workflow(j))
Waiting(j) == pc[j] \in {"w_loop", "p_extract", "p_fetch"}
Held(j) == [a \in {x \in DOMAIN heap : x.o = j} |-> heap[a]]
Mine(j) == <<pc[j], call[j], locals[j], ret[j], net[j], Held(j)>>
C22_NoInterference ==
    /\ [](\A j \in Jobs :
            /\ Cardinality(net[j].polled) <= 1
            /\ Waiting(j) => net[j].polled \subseteq {locals[j].prompt_id}
            /\ net[j].views > 0
               => net[j].viewed = net[j].last_history.entry.outputs.videos[1]
            /\ \A a \in DOMAIN InitHeap : heap[a] = InitHeap[a])
    /\ [][\A j \in Jobs :
            /\ net'[j].prompts # net[j].prompts
               => net'[j].submitted = Alone(j)
            /\ (Waiting(j) /\ Waiting(j)')
               => locals'[j].prompt_id = locals[j].prompt_id
            /\ \A k \in Jobs \ {j} :
                 Mine(k)' # Mine(k) => Mine(j)' = Mine(j)]_vars
C22_Witness ==
    /\ \A j \in Jobs : pc[j] = "w_loop" /\ net[j].histories > 0
    /\ net["j1"].uploaded # net["j2"].uploaded
    /\ locals["j1"].prompt_id # locals["j2"].prompt_id
    /\ net["j1"].submitted["87"].inputs.camera_pose = S("Zoom In")
    /\ net["j2"].submitted["87"].inputs.camera_pose = S("Pan Left")
    /\ net["j1"].submitted["87"].inputs.width # net["j2"].submitted["87"].inputs.width
    /\ net["j1"].polled # net["j2"].polled

====
